---- MODULE Spec2Model ----
(***************************************************************************)
(* Model of earwigbot/wiki/copyvios/workers.py: the shared queue registry  *)
(* (_CopyvioQueues), the job record (_CopyvioSource), the worker threads   *)
(* (_CopyvioWorker) and the per-check coordinator (CopyvioWorkspace).      *)
(*                                                                         *)
(* Threads are the workers 1..NumWorkers and one caller thread per         *)
(* workspace.  Every step between two points where another thread can      *)
(* observe or change shared state is one action.                           *)
(***************************************************************************)
EXTENDS Integers, Sequences, FiniteSets, TLC

\* ------------------------------------------------------------------ bounds
NumWorkers == 2      \* num_workers given to globalize() is in 1..NumWorkers
NumWS == 1           \* workspaces (checks) constructed
MaxUrl == 3          \* URLs are 1..MaxUrl
NumDomains == 2      \* registrable domains are 0..NumDomains-1
MaxTime == 1         \* the clock runs 0..MaxTime
MaxReplag == 700     \* site.get_replag() returns 0..MaxReplag seconds
ArticleSize == 1000  \* article.size of every check

Workers == 1..NumWorkers
WS == 1..NumWS
Urls == 1..MaxUrl
MaxJobs == NumWS * MaxUrl
\* intersection sizes a fetched text can have with the article
Deltas == {40, 100}
\* min_confidence values a workspace can be given (parts per Scale)
MinConfs == {2500, 5000}

\* ------------------------------------------------------- program constants
StopIteration == -1   \* the site of the stop token put by localize()
Scale == 10000        \* confidences are fixed-point, in parts per Scale
NoQueue == 0          \* None, for a queue reference / a missing sites entry
NoSource == 0         \* None, for a source reference; the placeholder best
NoQueues == 0         \* None, for the reference to a registry
LnTerms == 16         \* terms of the series that stands for math.log

\* --------------------------------------------------------------- variables
VARIABLES
  isGlobalized,   \* _is_globalized
  everGlobalized, \* a global registry has been created (it is created once)
  globalWorkers,  \* _global_workers
  globalQueues,   \* _global_queues (NoQueues: None, 1: the global registry)
  sites,          \* _CopyvioQueues.sites: domain key -> queue (NoQueue: absent)
  queues,         \* contents of every Queue created by enqueue, by queue id
  unassigned,     \* _CopyvioQueues.unassigned: FIFO of <<site, queue>>
  lock,           \* _CopyvioQueues.lock: 0 free, else the worker holding it
  jobs,           \* every _CopyvioSource created, in creation order
  wpc,            \* each worker thread's position
  wsite,          \* _CopyvioWorker._site
  wqueue,         \* _CopyvioWorker._queue
  wsrc,           \* the source a worker's _run holds
  wdelta,         \* size of the intersection of the text a worker fetched
  mpc,            \* each workspace caller's position
  until,          \* CopyvioWorkspace._until (0: None)
  minConf,        \* CopyvioWorkspace._min_confidence
  handled,        \* CopyvioWorkspace._handled_urls
  finished,       \* CopyvioWorkspace._is_finished
  best,           \* CopyvioWorkspace.best (NoSource: the placeholder)
  sources,        \* CopyvioWorkspace.sources
  compareLock,    \* CopyvioWorkspace._compare_lock: 0 free, else its holder
  pending,        \* the source enqueue() has created and not yet inserted
  skipped,        \* enqueue() has met a URL that was in _handled_urls
  now,            \* time()
  lpc,            \* position of the worker thread a workspace started itself
  calc,           \* a confidence calculation: its inputs and results
  resp,           \* a response _open_url is given, and what it returns for it
  sync,           \* a call of the AfC statistics task's sync()
  lone            \* one _CopyvioSource, and a thread that joins it

vars == <<isGlobalized, everGlobalized, globalWorkers, globalQueues, sites,
          queues, unassigned, lock, jobs, wpc, wsite, wqueue, wsrc, wdelta,
          mpc, until, minConf, handled, finished, best, sources, compareLock,
          pending, skipped, now, lpc, calc, resp, sync, lone>>

poolVars == <<isGlobalized, everGlobalized, globalWorkers, globalQueues>>
regVars == <<sites, queues, unassigned, lock>>
workerVars == <<wpc, wsite, wqueue, wsrc, wdelta>>
pureVars == <<calc, resp, sync, lone>>
wsVars == <<mpc, until, minConf, handled, finished, best, sources,
            compareLock, pending, skipped>>

\* ----------------------------------------------------------------- helpers
Domains == 0..(NumDomains - 1)

\* tldextract.extract(url).registered_domain, or its urlparse fallback
Key(url) == url % NumDomains

\* _CopyvioSource.__init__.  Three fields record the history of the source:
\* enq, its rank among the sources of its key in the order of their
\* insertion into the registry (0: not inserted); deq, its rank among the
\* sources of its key in the order they were taken out of their queues (0:
\* still queued); taken, the number of times _dequeue has returned it.
NewSource(ws, url) ==
  [ws |-> ws, url |-> url, key |-> Key(url), confidence |-> 0,
   chains |-> -1, done |-> FALSE, notext |-> FALSE,
   enq |-> 0, deq |-> 0, taken |-> 0]

\* _CopyvioSource.active
Active(j) == ~jobs[j].done

JobsOf(ws) == {j \in 1..Len(jobs) : jobs[j].ws = ws}

\* self.best.confidence
BestConfidence(ws) ==
  IF best[ws] = NoSource THEN 0 ELSE jobs[best[ws]].confidence

\* ------------------------------------------------- the confidence function
\* Fixed-point arithmetic in parts per Scale; x \div y rounds down as the
\* operands here are never negative.

\* sum of p/k + p*r/(k+1) + ... up to LnTerms terms: the series of
\* log(1 / (1 - ratio)) = ratio + ratio^2/2 + ratio^3/3 + ...
RECURSIVE LnSeries(_, _, _)
LnSeries(r, p, k) ==
  IF k > LnTerms \/ p = 0 THEN 0
  ELSE (p \div k) + LnSeries(r, (p * r) \div Scale, k + 1)

\* line 290: log(1 / (1 - ratio)), for ratio in parts per Scale
ConfLog(ratio) == LnSeries(ratio, ratio, 1)

\* a polynomial piece with the coefficient 1.0 for 1.8948
ConfPoly_Wrong(ratio) ==
  ((10000 * ratio) - (8939 * ((ratio * ratio) \div Scale))) \div Scale - 9

\* line 292: -0.8939 * ratio ** 2 + 1.8948 * ratio - 0.0009
ConfPoly(ratio) ==
  ((18948 * ratio) - (8939 * ((ratio * ratio) \div Scale))) \div Scale - 9

\* conf_with_article_and_delta(article, delta)
ConfWithArticleAndDelta(article, delta) ==
  LET ratio == (delta * Scale) \div article
  IN IF delta * 100000 <= 52763 * article THEN ConfLog(ratio)
     ELSE ConfPoly(ratio)

\* line 302: delta / (delta + 100)
ConfDeltaTo100(delta) == (delta * Scale) \div (delta + 100)

\* a second piece with the denominator of the first
ConfDeltaTo250_Wrong(delta) == ((delta - 25) * Scale) \div (delta + 100)

\* line 304: (delta - 25) / (delta + 50)
ConfDeltaTo250(delta) == ((delta - 25) * Scale) \div (delta + 50)

\* line 306: (10.5 * delta - 750) / (10 * delta)
ConfDeltaTo500(delta) == ((105 * delta - 7500) * (Scale \div 100)) \div delta

\* line 308: (delta - 50) / delta
ConfDeltaOver500(delta) == ((delta - 50) * Scale) \div delta

\* conf_with_delta(delta)
ConfWithDelta(delta) ==
  IF delta <= 100 THEN ConfDeltaTo100(delta)
  ELSE IF delta <= 250 THEN ConfDeltaTo250(delta)
  ELSE IF delta <= 500 THEN ConfDeltaTo500(delta)
  ELSE ConfDeltaOver500(delta)

Max(a, b) == IF a >= b THEN a ELSE b

\* a _calculate_confidence that returns the first branch alone
CalculateConfidence_First(article, delta) ==
  ConfWithArticleAndDelta(article, delta)

\* CopyvioWorkspace._calculate_confidence
CalculateConfidence(article, delta) ==
  Max(ConfWithArticleAndDelta(article, delta), ConfWithDelta(delta))

\* ------------------------------------------- line 292 at the ratio 1.0
\* With delta.size = article.size the ratio of line 288 is exactly 1.0, the
\* products of line 292 are exact (x * 1.0 = x) and its value is
\* fl(fl(1.8948 - 0.8939) - 0.0009), fl rounding to the nearest double, ties
\* to even.  It is computed here exactly: a double is the integer it is a
\* multiple of 2^-63 of, written on three limbs of 22 bits, the most
\* significant first.
Limb == 2^22

\* float.hex: 0.8939 is 0x1.c9ad42c3c9eedp-1, 1.8948 is 0x1.e5119ce075f70p+0,
\* 0.0009 is 0x1.d7dbf487fcb92p-11, and 1.0 is 2^63 units
D8939 == <<468661, 181193, 3912704>>
D18948 == <<993420, 3784939, 3899392>>
D0009 == <<471, 3603745, 4180882>>
DOne == <<2^19, 0, 0>>

\* x < y
DLess(x, y) ==
  \/ x[1] < y[1]
  \/ x[1] = y[1] /\ x[2] < y[2]
  \/ x[1] = y[1] /\ x[2] = y[2] /\ x[3] < y[3]

\* x - y, for x >= y
DSub(x, y) ==
  LET l0 == x[3] - y[3]
      b0 == IF l0 < 0 THEN 1 ELSE 0
      l1 == x[2] - y[2] - b0
      b1 == IF l1 < 0 THEN 1 ELSE 0
  IN <<x[1] - y[1] - b1, l1 + b1 * Limb, l0 + b0 * Limb>>

\* the double nearest to x, for x in [0.5, 2): doubles are 2^-52 apart from
\* 1.0 on (2^11 units) and 2^-53 apart below it
DRound(x) ==
  LET ulp == IF DLess(x, DOne) THEN 2^10 ELSE 2^11
      rem == x[3] % ulp
      down == x[3] - rem
      up == \/ 2 * rem > ulp
            \/ 2 * rem = ulp /\ (down \div ulp) % 2 = 1
      l0 == IF up THEN down + ulp ELSE down
      c0 == IF l0 >= Limb THEN 1 ELSE 0
      l1 == x[2] + c0
      c1 == IF l1 >= Limb THEN 1 ELSE 0
  IN <<x[1] + c1, l1 - c1 * Limb, l0 - c0 * Limb>>

\* line 292 for ratio = 1.0
PolyAtOne == DRound(DSub(DRound(DSub(D18948, D8939)), D0009))

\* the float _calculate_confidence returns is greater than 1.0: decided
\* exactly at the ratio 1.0; below it the value is at least 0.1 / article
\* under 1.0 and the fixed-point value decides
ExceedsOne(article, delta) ==
  IF delta = article THEN DLess(DOne, PolyAtOne)
  ELSE CalculateConfidence(article, delta) > Scale

\* no confidence has been calculated
NoCalc == [article |-> 0, delta |-> 0, f1 |-> -1, f2 |-> -1, conf |-> -1,
           over |-> FALSE, best |-> FALSE, finish |-> FALSE]

\* no URL is being opened
NoResponse == [opened |-> FALSE, clen |-> "absent", cval |-> 0,
               ctype |-> "absent", read |-> FALSE, gzip |-> FALSE,
               gunzip |-> FALSE, nonempty |-> FALSE, result |-> "pending"]

\* sync() has not been called
NoSync == [replag |-> 0, ignore |-> FALSE, pc |-> "idle", warned |-> FALSE,
           ran |-> <<>>]

\* _CopyvioSource.__init__ (lines 90-99): confidence 0.0, the empty chains
\* (-1) and an event that is not set; so far nobody has joined the source
\* (jpc), and woke tells why a join returned
LoneSource == [confidence |-> 0, chains |-> -1, event |-> FALSE,
               cancelled |-> FALSE, jpc |-> "idle", until |-> 0,
               woke |-> "none"]

\* -------------------------------------------------------------------- Init
\* the state before any call, for the workspaces W that callers construct
InitWith(W) ==
  /\ isGlobalized = FALSE
  /\ everGlobalized = FALSE
  /\ globalWorkers = {}
  /\ globalQueues = NoQueues
  /\ sites = [d \in Domains |-> NoQueue]
  /\ queues = <<>>
  /\ unassigned = <<>>
  /\ lock = 0
  /\ jobs = <<>>
  /\ wpc = [w \in Workers |-> "off"]
  /\ wsite = [w \in Workers |-> -2]
  /\ wqueue = [w \in Workers |-> NoQueue]
  /\ wsrc = [w \in Workers |-> NoSource]
  /\ wdelta = [w \in Workers |-> -1]
  /\ mpc = [ws \in W |-> "none"]
  /\ until = [ws \in W |-> 0]
  /\ minConf = [ws \in W |-> 0]
  /\ handled = [ws \in W |-> {}]
  /\ finished = [ws \in W |-> FALSE]
  /\ best = [ws \in W |-> NoSource]
  /\ sources = [ws \in W |-> <<>>]
  /\ compareLock = [ws \in W |-> 0]
  /\ pending = [ws \in W |-> NoSource]
  /\ skipped = [ws \in W |-> FALSE]
  /\ now = 0
  /\ lpc = [ws \in W |-> "off"]

InitState == InitWith(WS)

Init ==
  /\ InitState
  /\ calc = NoCalc
  /\ resp = NoResponse
  /\ sync = NoSync
  /\ lone = LoneSource

\* ---------------------------------------------------------- pool lifecycle
\* globalize(num_workers): no effect when already globalized; otherwise a
\* new registry and n started worker threads with no deadline.
\* The model creates the global registry once.
Globalize(n) ==
  /\ isGlobalized \/ ~everGlobalized
  /\ IF isGlobalized
     THEN UNCHANGED <<poolVars, wpc>>
     ELSE /\ isGlobalized' = TRUE
          /\ everGlobalized' = TRUE
          /\ globalQueues' = 1
          /\ globalWorkers' = 1..n
          /\ wpc' = [w \in Workers |-> IF w <= n THEN "dequeue" ELSE "off"]
  /\ UNCHANGED <<regVars, jobs, wsite, wqueue, wsrc, wdelta, wsVars, now, lpc, pureVars>>

\* a localize() that puts one stop token however many workers there are
PutStops_One(q, n) == Append(q, <<StopIteration, NoQueue>>)

\* the queue contents after putting n stop tokens
RECURSIVE PutStops(_, _)
PutStops(q, n) ==
  IF n = 0 THEN q ELSE PutStops(Append(q, <<StopIteration, NoQueue>>), n - 1)

\* a localize() that does not empty _global_workers
Localize_KeepsWorkers ==
  /\ IF ~isGlobalized
     THEN UNCHANGED <<poolVars, unassigned>>
     ELSE /\ unassigned' = PutStops(unassigned, Cardinality(globalWorkers))
          /\ globalQueues' = NoQueues
          /\ isGlobalized' = FALSE
          /\ UNCHANGED <<everGlobalized, globalWorkers>>
  /\ UNCHANGED <<sites, queues, lock, jobs, workerVars, wsVars, now, lpc, pureVars>>

\* localize(): one stop token per global worker, put without the lock
Localize ==
  /\ IF ~isGlobalized
     THEN UNCHANGED <<poolVars, unassigned>>
     ELSE /\ unassigned' = PutStops(unassigned, Cardinality(globalWorkers))
          /\ globalQueues' = NoQueues
          /\ globalWorkers' = {}
          /\ isGlobalized' = FALSE
          /\ UNCHANGED everGlobalized
  /\ UNCHANGED <<sites, queues, lock, jobs, workerVars, wsVars, now, lpc, pureVars>>

\* ------------------------------------------------------------- workspace
\* CopyvioWorkspace.__init__ while globalized (lines 253-270): the workspace
\* uses the global registry and workers.  u is the deadline until (0: None)
\* and mc the min_confidence it is given.  Workspaces are constructed in the
\* order 1, 2, ...  While not globalized the constructor returns no
\* workspace: line 276 appends to self._workers, which is never assigned.
NewWorkspace(ws, u, mc) ==
  /\ mpc[ws] = "none"
  /\ ws > 1 => mpc[ws - 1] # "none"
  /\ isGlobalized
  /\ mpc' = [mpc EXCEPT ![ws] = "ready"]
  /\ until' = [until EXCEPT ![ws] = u]
  /\ minConf' = [minConf EXCEPT ![ws] = mc]
  /\ UNCHANGED <<poolVars, regVars, jobs, workerVars, handled, finished, best,
                 sources, compareLock, pending, skipped, now, lpc, pureVars>>

\* CopyvioWorkspace.__init__ while not globalized (lines 253-276).  The
\* constructor makes a registry of its own and, for i = 0, a worker on that
\* registry with the deadline until, which it starts (line 275); line 276
\* then appends to self._workers, an attribute assigned only by the
\* globalized branch (line 270): AttributeError leaves the constructor, the
\* caller gets no workspace and the started thread goes on.  num_workers is
\* at least 1.
NewWorkspaceLocal(ws, u) ==
  /\ mpc[ws] = "none"
  /\ ws > 1 => mpc[ws - 1] # "none"
  /\ ~isGlobalized
  /\ mpc' = [mpc EXCEPT ![ws] = "failed"]
  /\ until' = [until EXCEPT ![ws] = u]
  /\ lpc' = [lpc EXCEPT ![ws] = "dequeue"]
  /\ UNCHANGED <<poolVars, regVars, jobs, workerVars, minConf, handled,
                 finished, best, sources, compareLock, pending, skipped, now,
                 pureVars>>

\* _dequeue() of the worker a workspace started (lines 197-204): with its
\* deadline passed it returns None, and _run passes None to _open_url, whose
\* first use of it (source.headers) raises AttributeError; otherwise it takes
\* the lock of its registry and waits on the dispatch queue, which is empty
\* and stays so, the registry being known to nobody else.
LocalDequeue(ws) ==
  /\ lpc[ws] = "dequeue"
  /\ lpc' = [lpc EXCEPT ![ws] =
              IF until[ws] # 0 /\ until[ws] - now <= 0 THEN "crashed" ELSE "get"]
  /\ UNCHANGED <<poolVars, regVars, jobs, workerVars, wsVars, now, pureVars>>

\* the get() of line 213 times out: Empty, caught by _run, which returns
LocalTimeout(ws) ==
  /\ lpc[ws] = "get"
  /\ until[ws] # 0 /\ now >= until[ws]
  /\ lpc' = [lpc EXCEPT ![ws] = "stopped"]
  /\ UNCHANGED <<poolVars, regVars, jobs, workerVars, wsVars, now, pureVars>>

\* an enqueue() that passes over only the URLs it has made a source for
AlreadyHandled_HasSource(ws, url) == \E j \in JobsOf(ws) : jobs[j].url = url

\* an enqueue() that forgets the URLs it has handled
AlreadyHandled_Never(ws, url) == FALSE

\* line 333
AlreadyHandled(ws, url) == url \in handled[ws]

\* an enqueue() that ignores the answer of exclude_check
Skips_Never(excluded) == FALSE

\* lines 336-337: the URL is passed over when exclude_check(url) is true
Skips(excluded) == excluded

\* enqueue(): one iteration of the loop over urls, up to the creation of the
\* source (lines 331-345).  excluded is the answer of exclude_check(url).
EnqueueUrl(ws, url, excluded) ==
  /\ mpc[ws] = "ready"
  /\ IF finished[ws]
     THEN UNCHANGED <<handled, jobs, queues, pending, mpc, skipped>>
     ELSE IF AlreadyHandled(ws, url)
     THEN /\ skipped' = [skipped EXCEPT ![ws] = TRUE]
          /\ UNCHANGED <<handled, jobs, queues, pending, mpc>>
     ELSE /\ handled' = [handled EXCEPT ![ws] = @ \cup {url}]
          /\ UNCHANGED skipped
          /\ IF Skips(excluded)
             THEN UNCHANGED <<jobs, queues, pending, mpc>>
             ELSE /\ Len(jobs) < MaxJobs
                  /\ jobs' = Append(jobs, NewSource(ws, url))
                  /\ queues' = Append(queues, <<>>)
                  /\ pending' = [pending EXCEPT ![ws] = Len(jobs) + 1]
                  /\ mpc' = [mpc EXCEPT ![ws] = "insert"]
  /\ UNCHANGED <<poolVars, sites, unassigned, lock, workerVars, until, minConf,
                 finished, best, sources, compareLock, now, lpc, pureVars>>

\* the sources of js that share the key of source j
SameKey(js, j) == {k \in 1..Len(js) : js[k].key = js[j].key}

\* the sources after source j went into the queue of its key
Inserted(js, j) ==
  [js EXCEPT ![j].enq =
     1 + Cardinality({k \in SameKey(js, j) : js[k].enq # 0})]

\* a Queue.put that puts the source in front of those waiting
Put_Front(q, src) == <<src>> \o q

\* Queue.put(source), lines 350 and 353: the source goes behind those that
\* wait in the queue
Put(q, src) == Append(q, src)

\* an enqueue() that starts a queue for every source
HasQueue_Never(key) == FALSE

\* line 348: key in self._queues.sites
HasQueue(key) == sites[key] # NoQueue

\* enqueue(): the locked insertion of the source (lines 347-355).  The queue
\* a source starts is identified by that source's index.
EnqueueInsert(ws) ==
  /\ mpc[ws] = "insert"
  /\ lock = 0
  /\ jobs' = Inserted(jobs, pending[ws])
  /\ LET src == pending[ws]
         key == jobs[src].key
     IN IF HasQueue(key)
        THEN /\ queues' = [queues EXCEPT ![sites[key]] = Put(@, src)]
             /\ UNCHANGED <<sites, unassigned>>
        ELSE /\ sites' = [sites EXCEPT ![key] = src]
             /\ queues' = [queues EXCEPT ![src] = Put(<<>>, src)]
             /\ unassigned' = Append(unassigned, <<key, src>>)
  /\ pending' = [pending EXCEPT ![ws] = NoSource]
  /\ mpc' = [mpc EXCEPT ![ws] = "ready"]
  /\ UNCHANGED <<poolVars, lock, workerVars, until, minConf, handled,
                 finished, best, sources, compareLock, skipped, now, lpc, pureVars>>

\* _CopyvioSource.join(until) has returned: no deadline given, the deadline
\* passed, or the event set
JoinReturns(j, u) == u = 0 \/ u - now <= 0 \/ ~Active(j)

\* a wait() that joins every source of the workspace with no deadline
WaitCanReturn_NoDeadline(ws) == \A j \in JobsOf(ws) : ~Active(j)

\* wait() joins the sources one after the other, each against _until: it has
\* returned once every join has
WaitCanReturn(ws) ==
  \A i \in 1..Len(sources[ws]) : JoinReturns(sources[ws][i], until[ws])

\* wait() is called
WaitCall(ws) ==
  /\ mpc[ws] = "ready"
  /\ mpc' = [mpc EXCEPT ![ws] = "wait"]
  /\ UNCHANGED <<poolVars, regVars, jobs, workerVars, until, minConf, handled,
                 finished, best, sources, compareLock, pending, skipped, now, lpc, pureVars>>

\* wait() returns
WaitReturn(ws) ==
  /\ mpc[ws] = "wait"
  /\ WaitCanReturn(ws)
  /\ mpc' = [mpc EXCEPT ![ws] = "ready"]
  /\ UNCHANGED <<poolVars, regVars, jobs, workerVars, until, minConf, handled,
                 finished, best, sources, compareLock, pending, skipped, now, lpc, pureVars>>

\* time passes
Tick ==
  /\ now < MaxTime
  /\ now' = now + 1
  /\ UNCHANGED <<poolVars, regVars, jobs, workerVars, wsVars, lpc, pureVars>>

\* ----------------------------------------------------------------- worker
\* _dequeue(): a global worker has no deadline (timeout = None); it takes
\* the registry lock (line 204).
DequeueLock(w) ==
  /\ wpc[w] = "dequeue"
  /\ lock = 0
  /\ lock' = w
  /\ wpc' = [wpc EXCEPT ![w] = "get"]
  /\ UNCHANGED <<poolVars, sites, queues, unassigned, jobs, wsite, wqueue,
                 wsrc, wdelta, wsVars, now, lpc, pureVars>>

\* a Queue.get that leaves the source it returns in the queue
Rest_Peek(q) == q

\* Queue.get, lines 207 and 216: the queue without the source returned
Rest(q) == Tail(q)

\* the sources after get() took source j out of its queue
Popped(js, j) ==
  [js EXCEPT ![j].deq =
     1 + Cardinality({k \in SameKey(js, j) : js[k].deq # 0})]

\* the sources after _dequeue returned source j to _run
Returned(js, j) == [js EXCEPT ![j].taken = @ + 1]

\* a _dequeue that returns the source without leaving its with block
Deliver_KeepsLock(w, src) ==
  /\ jobs' = Returned(Popped(jobs, src), src)
  /\ wsrc' = [wsrc EXCEPT ![w] = src]
  /\ wpc' = [wpc EXCEPT ![w] = "fetch"]
  /\ lock' = lock

\* lines 220-222 for the source just taken: an active source is returned to
\* _run, which leaves the with block and frees the lock; for an inactive one
\* _dequeue calls itself and requests the lock it still holds.
Deliver(w, src) ==
  IF Active(src)
  THEN /\ jobs' = Returned(Popped(jobs, src), src)
       /\ wsrc' = [wsrc EXCEPT ![w] = src]
       /\ wpc' = [wpc EXCEPT ![w] = "fetch"]
       /\ lock' = 0
  ELSE /\ jobs' = Popped(jobs, src)
       /\ wsrc' = wsrc
       /\ wpc' = [wpc EXCEPT ![w] = "relock"]
       /\ lock' = lock

\* _dequeue returns StopIteration or raises: the with block is left (the
\* lock is freed) and _run ends the thread
EndThread(w, how) ==
  /\ wpc' = [wpc EXCEPT ![w] = how]
  /\ lock' = 0
  /\ UNCHANGED <<sites, queues, jobs, wsite, wqueue, wsrc>>

\* a _dequeue that leaves the entry of a queue it has emptied
Release_Never(s, site, rest) == s

\* lines 208-209 and 217-218: the sites mapping after a get() that left
\* rest in the queue of site: the entry is deleted if the queue is empty
Release(s, site, rest) ==
  IF rest = <<>> THEN [s EXCEPT ![site] = NoQueue] ELSE s

\* lines 205-209: the worker owns a queue and takes its next source; get()
\* blocks, with the lock held, while the queue is empty.
GetOwned(w) ==
  LET q == wqueue[w]
      rest == Rest(queues[q])
  IN /\ queues[q] # <<>>
     /\ UNCHANGED <<unassigned, wsite>>
     /\ IF rest = <<>> /\ sites[wsite[w]] = NoQueue
        THEN /\ queues' = [queues EXCEPT ![q] = rest]
             /\ jobs' = Popped(jobs, Head(queues[q]))
             /\ wpc' = [wpc EXCEPT ![w] = "crashed"]      \* KeyError
             /\ lock' = 0
             /\ UNCHANGED <<sites, wqueue, wsrc>>
        ELSE /\ queues' = [queues EXCEPT ![q] = rest]
             /\ sites' = Release(sites, wsite[w], rest)
             /\ wqueue' = IF rest = <<>>
                          THEN [wqueue EXCEPT ![w] = NoQueue] ELSE wqueue
             /\ Deliver(w, Head(queues[q]))

\* lines 211-219: the worker owns no queue and takes the next pair of the
\* dispatch queue; get() blocks, with the lock held, while it is empty.
GetUnassigned(w) ==
  LET site == Head(unassigned)[1]
      q == Head(unassigned)[2]
      rest == Rest(queues[q])
  IN /\ unassigned # <<>>
     /\ unassigned' = Tail(unassigned)
     /\ IF site = StopIteration
        THEN EndThread(w, "stopped")                           \* return StopIteration
        ELSE IF queues[q] = <<>>
        THEN EndThread(w, "stopped")                           \* Empty, caught by _run
        ELSE IF rest = <<>> /\ sites[site] = NoQueue
        THEN /\ queues' = [queues EXCEPT ![q] = rest]
             /\ jobs' = Popped(jobs, Head(queues[q]))
             /\ wpc' = [wpc EXCEPT ![w] = "crashed"]      \* KeyError
             /\ lock' = 0
             /\ UNCHANGED <<sites, wsite, wqueue, wsrc>>
        ELSE /\ queues' = [queues EXCEPT ![q] = rest]
             /\ sites' = Release(sites, site, rest)
             /\ wsite' = IF rest = <<>> THEN wsite ELSE [wsite EXCEPT ![w] = site]
             /\ wqueue' = IF rest = <<>> THEN wqueue ELSE [wqueue EXCEPT ![w] = q]
             /\ Deliver(w, Head(queues[q]))

\* a _dequeue that goes to the dispatch queue whatever the worker owns
Owns_Never(w) == FALSE

\* line 205: the worker owns a queue (self._queue is not None)
Owns(w) == wqueue[w] # NoQueue

\* _dequeue(): the body of the with block (lines 205-222)
DequeueGet(w) ==
  /\ wpc[w] = "get"
  /\ lock = w
  /\ IF Owns(w) THEN GetOwned(w) ELSE GetUnassigned(w)
  /\ UNCHANGED <<poolVars, wdelta, wsVars, now, lpc, pureVars>>

\* the source with the failure of its fetch recorded
NoText(j) == [jobs EXCEPT ![j].notext = TRUE]

\* a _run() that tests "text is not None": an empty text is compared
FetchNoText_Compares(w) ==
  /\ wpc[w] = "fetch"
  /\ jobs' = NoText(wsrc[w])
  /\ wdelta' = [wdelta EXCEPT ![w] = 0]
  /\ wpc' = [wpc EXCEPT ![w] = "text"]
  /\ UNCHANGED <<poolVars, regVars, wsite, wqueue, wsrc, wsVars, now, lpc, pureVars>>

\* _run(), lines 238-239: _open_url returned None or an empty text; the
\* loop goes on to the next _dequeue
FetchNoText(w) ==
  /\ wpc[w] = "fetch"
  /\ jobs' = NoText(wsrc[w])
  /\ wpc' = [wpc EXCEPT ![w] = "dequeue"]
  /\ wsrc' = [wsrc EXCEPT ![w] = NoSource]
  /\ UNCHANGED <<poolVars, regVars, wsite, wqueue, wdelta, wsVars, now, lpc, pureVars>>

\* _run(), lines 238-239: _open_url returned a text, whose chain intersects
\* the article's in d units
FetchText(w, d) ==
  /\ wpc[w] = "fetch"
  /\ wdelta' = [wdelta EXCEPT ![w] = d]
  /\ wpc' = [wpc EXCEPT ![w] = "text"]
  /\ UNCHANGED <<poolVars, regVars, jobs, wsite, wqueue, wsrc, wsVars, now, lpc, pureVars>>

\* _run(), line 240, as the thread ends: the frame of _run and its locals
\* (source, text) are gone.  A _CopyvioSource has the attribute _workspace and no
\* attribute workspace; source.workspace raises AttributeError, which ends
\* the thread.
CallCompare(w) ==
  /\ wpc[w] = "text"
  /\ wpc' = [wpc EXCEPT ![w] = "crashed"]
  /\ wdelta' = [wdelta EXCEPT ![w] = -1]
  /\ wsrc' = [wsrc EXCEPT ![w] = NoSource]
  /\ UNCHANGED <<poolVars, regVars, jobs, wsite, wqueue, wsVars, now, lpc, pureVars>>

\* ------------------------------------------------------------------- Spec
Next ==
  \/ \E n \in Workers : Globalize(n)
  \/ Localize
  \/ \E ws \in WS, u \in 0..MaxTime, mc \in MinConfs : NewWorkspace(ws, u, mc)
  \/ \E ws \in WS, u \in 0..MaxTime : NewWorkspaceLocal(ws, u)
  \/ \E ws \in WS : LocalDequeue(ws)
  \/ \E ws \in WS : LocalTimeout(ws)
  \/ \E ws \in WS, url \in Urls, x \in BOOLEAN : EnqueueUrl(ws, url, x)
  \/ \E ws \in WS : EnqueueInsert(ws)
  \/ \E ws \in WS : WaitCall(ws)
  \/ \E ws \in WS : WaitReturn(ws)
  \/ Tick
  \/ \E w \in Workers : DequeueLock(w)
  \/ \E w \in Workers : DequeueGet(w)
  \/ \E w \in Workers : FetchNoText(w)
  \/ \E w \in Workers, d \in Deltas : FetchText(w, d)
  \/ \E w \in Workers : CallCompare(w)

Spec == Init /\ [][Next]_vars

\* a step of the thread of worker w
WorkerStep(w) ==
  \/ DequeueLock(w)
  \/ DequeueGet(w)
  \/ FetchNoText(w)
  \/ \E d \in Deltas : FetchText(w, d)
  \/ CallCompare(w)

\* Spec with the scheduling of threads: a worker thread that can take a
\* step is not left waiting forever
SpecFair == Spec /\ \A w \in Workers : WF_vars(WorkerStep(w))

\* ---------------------------------------------------------------- compare
\* CopyvioWorkspace.compare is a public method that no step of Spec reaches
\* (CallCompare raises).  SpecCompare adds its invocation, on the workspace
\* that created the source, by the worker holding a source and its text.

\* _CopyvioSource.complete(confidence, source_chain, delta_chain)
Complete(j, confidence, delta) ==
  [jobs EXCEPT ![j].confidence = confidence, ![j].chains = delta,
               ![j].done = TRUE]

\* compare(), lines 365-367: the confidence is computed and the source
\* completed, before the compare lock is requested
Compare(w) ==
  /\ wpc[w] = "text"
  /\ jobs' = Complete(wsrc[w], CalculateConfidence(ArticleSize, wdelta[w]),
                      wdelta[w])
  /\ wpc' = [wpc EXCEPT ![w] = "compare"]
  /\ UNCHANGED <<poolVars, regVars, wsite, wqueue, wsrc, wdelta, wsVars, now, lpc, pureVars>>

\* a compare() that also replaces best at equal confidence
NewBest_AtLeast(ws, conf) == conf >= BestConfidence(ws)

\* a compare() that replaces best whatever the confidence
NewBest_Always(ws, conf) == TRUE

\* line 371
NewBest(ws, conf) == conf > BestConfidence(ws)

\* line 373
MeetsThreshold(ws, conf) == conf >= minConf[ws]

\* a _finish_early() that never returns at line 317
AlreadyFinished_Never(ws) == FALSE

\* _finish_early(), lines 316-317: nothing is done for a finished workspace
AlreadyFinished(ws) == finished[ws]

\* compare(), lines 370-374, up to the registry lock that _finish_early
\* requests (or to the end when it is not called or returns at line 317)
CompareBest(w) ==
  LET src == wsrc[w]
      ws == jobs[src].ws
      conf == jobs[src].confidence
  IN /\ wpc[w] = "compare"
     /\ compareLock[ws] = 0
     /\ best' = IF NewBest(ws, conf) THEN [best EXCEPT ![ws] = src] ELSE best
     /\ IF NewBest(ws, conf) /\ MeetsThreshold(ws, conf)
           /\ ~AlreadyFinished(ws)
        THEN /\ compareLock' = [compareLock EXCEPT ![ws] = w]
             /\ wpc' = [wpc EXCEPT ![w] = "finish"]
             /\ UNCHANGED <<wdelta, wsrc>>
        ELSE /\ wpc' = [wpc EXCEPT ![w] = "dequeue"]
             /\ wdelta' = [wdelta EXCEPT ![w] = -1]
             /\ wsrc' = [wsrc EXCEPT ![w] = NoSource]
             /\ UNCHANGED compareLock
     /\ UNCHANGED <<poolVars, regVars, jobs, wsite, wqueue, mpc, until,
                    minConf, handled, finished, sources, pending, skipped, now, lpc, pureVars>>

\* a _finish_early() that cancels every source there is
CancelAll_Every(js, srcs) == [j \in 1..Len(js) |-> [js[j] EXCEPT !.done = TRUE]]

\* the sources after cancel() on each of srcs
RECURSIVE CancelAll(_, _)
CancelAll(js, srcs) ==
  IF srcs = <<>> THEN js
  ELSE CancelAll([js EXCEPT ![Head(srcs)].done = TRUE], Tail(srcs))

\* a _finish_early() that returns to _run with the registry lock held
FinishEarly_KeepsLock(w) ==
  LET ws == jobs[wsrc[w]].ws
  IN /\ wpc[w] = "finish"
     /\ lock = 0
     /\ lock' = w
     /\ jobs' = CancelAll(jobs, sources[ws])
     /\ finished' = [finished EXCEPT ![ws] = TRUE]
     /\ compareLock' = [compareLock EXCEPT ![ws] = 0]
     /\ wpc' = [wpc EXCEPT ![w] = "dequeue"]
     /\ wdelta' = [wdelta EXCEPT ![w] = -1]
     /\ wsrc' = [wsrc EXCEPT ![w] = NoSource]
     /\ UNCHANGED <<poolVars, sites, queues, unassigned, wsite, wqueue, mpc,
                    until, minConf, handled, best, sources, pending, skipped,
                    now, lpc, pureVars>>

\* _finish_early(), lines 319-322, and the return of compare(): with the
\* registry lock, every source of self.sources is cancelled and the
\* workspace marked finished; both locks are freed
FinishEarly(w) ==
  LET ws == jobs[wsrc[w]].ws
  IN /\ wpc[w] = "finish"
     /\ lock = 0
     /\ jobs' = CancelAll(jobs, sources[ws])
     /\ finished' = [finished EXCEPT ![ws] = TRUE]
     /\ compareLock' = [compareLock EXCEPT ![ws] = 0]
     /\ wpc' = [wpc EXCEPT ![w] = "dequeue"]
     /\ wdelta' = [wdelta EXCEPT ![w] = -1]
     /\ wsrc' = [wsrc EXCEPT ![w] = NoSource]
     /\ UNCHANGED <<poolVars, regVars, wsite, wqueue, mpc, until,
                    minConf, handled, best, sources, pending, skipped, now, lpc, pureVars>>

NextCompare ==
  \/ Next
  \/ \E w \in Workers : Compare(w)
  \/ \E w \in Workers : CompareBest(w)
  \/ \E w \in Workers : FinishEarly(w)

SpecCompare == Init /\ [][NextCompare]_vars

\* ------------------------------------------------- two workspaces, one pool
\* SpecShared is the global pool serving the checks of two callers at once:
\* the workspaces are constructed after globalize(), with no deadline, and
\* every URL is fetched and gives a text.

\* the workspaces of SpecShared
SharedWS == 1..(NumWS + 1)

\* the URLs the callers of SpecShared enqueue
SharedUrls == 1..(MaxUrl - 1)

InitShared ==
  /\ InitWith(SharedWS)
  /\ calc = NoCalc
  /\ resp = NoResponse
  /\ sync = NoSync
  /\ lone = LoneSource

NextShared ==
  \/ \E n \in Workers : Globalize(n)
  \/ \E ws \in SharedWS, mc \in MinConfs : NewWorkspace(ws, 0, mc)
  \/ \E ws \in SharedWS, url \in SharedUrls : EnqueueUrl(ws, url, FALSE)
  \/ \E ws \in SharedWS : EnqueueInsert(ws)
  \/ \E w \in Workers : DequeueLock(w)
  \/ \E w \in Workers : DequeueGet(w)
  \/ \E w \in Workers, d \in Deltas : FetchText(w, d)
  \/ \E w \in Workers : Compare(w)
  \/ \E w \in Workers : CompareBest(w)
  \/ \E w \in Workers : FinishEarly(w)

SpecShared == InitShared /\ [][NextShared]_vars

\* ------------------------------------------------ the confidence function
\* SpecCalc applies compare() to the first source of a fresh workspace, for
\* article sizes in Articles and every size of intersection up to the
\* article's.

\* article.size of the checks whose confidences are calculated
Articles == {1, 7, 100, 1000, 1200, ArticleSize}

\* min_confidence values of those checks
CalcMinConfs == {5000, 9166, 9500}

\* the pool was globalized and workspace 1 constructed with min_confidence
\* mc; it is to compare a source whose text shares delta units with its
\* article of size article
InitCalc ==
  /\ isGlobalized = TRUE
  /\ everGlobalized = TRUE
  /\ globalWorkers = Workers
  /\ globalQueues = 1
  /\ sites = [d \in Domains |-> NoQueue]
  /\ queues = <<>>
  /\ unassigned = <<>>
  /\ lock = 0
  /\ jobs = <<>>
  /\ wpc = [w \in Workers |-> "dequeue"]
  /\ wsite = [w \in Workers |-> -2]
  /\ wqueue = [w \in Workers |-> NoQueue]
  /\ wsrc = [w \in Workers |-> NoSource]
  /\ wdelta = [w \in Workers |-> -1]
  /\ mpc = [ws \in WS |-> IF ws = 1 THEN "ready" ELSE "none"]
  /\ until = [ws \in WS |-> 0]
  /\ \E mc \in CalcMinConfs : minConf = [ws \in WS |-> IF ws = 1 THEN mc ELSE 0]
  /\ handled = [ws \in WS |-> {}]
  /\ finished = [ws \in WS |-> FALSE]
  /\ best = [ws \in WS |-> NoSource]
  /\ sources = [ws \in WS |-> <<>>]
  /\ compareLock = [ws \in WS |-> 0]
  /\ pending = [ws \in WS |-> NoSource]
  /\ skipped = [ws \in WS |-> FALSE]
  /\ now = 0
  /\ lpc = [ws \in WS |-> "off"]
  /\ resp = NoResponse
  /\ sync = NoSync
  /\ lone = LoneSource
  /\ \E a \in Articles : \E d \in 0..a :
       calc = [NoCalc EXCEPT !.article = a, !.delta = d]

\* compare(), lines 365-373, on workspace 1: the two branches and the
\* confidence are calculated, and the tests of lines 371 and 373 taken
Calculate ==
  LET conf == CalculateConfidence(calc.article, calc.delta)
  IN /\ calc.conf = -1
     /\ calc' = [calc EXCEPT
                   !.f1 = ConfWithArticleAndDelta(calc.article, calc.delta),
                   !.f2 = ConfWithDelta(calc.delta),
                   !.conf = conf,
                   !.over = ExceedsOne(calc.article, calc.delta),
                   !.best = NewBest(1, conf),
                   !.finish = NewBest(1, conf) /\ MeetsThreshold(1, conf)]
     /\ UNCHANGED <<poolVars, regVars, jobs, workerVars, wsVars, now, lpc,
                    resp, sync, lone>>

NextCalc == Calculate

SpecCalc == InitCalc /\ [][NextCalc]_vars

\* ------------------------------------------------------------- _open_url
\* SpecFetch applies _open_url to the responses a server can give.

\* line 168: 1024 ** 2
MaxSize == 1024 * 1024

\* the Content-Length header of a response: absent, not an integer literal,
\* or the integer cval
ContentLengths ==
  {[clen |-> "absent", cval |-> 0], [clen |-> "unparseable", cval |-> 0]}
    \cup {[clen |-> "int", cval |-> n] : n \in {0, 1, MaxSize, MaxSize + 1}}

\* the Content-Type header of a response, without its parameters
ContentTypes ==
  {"absent", "text/html", "application/xhtml+xml", "text/plain",
   "application/pdf"}

\* the responses: opened is that opener.open returned one, read that
\* response.read() did, gzip that Content-Encoding is gzip, gunzip that the
\* content decompressed, nonempty that the handler's text is not empty
Responses ==
  {[opened |-> o, clen |-> l.clen, cval |-> l.cval, ctype |-> t, read |-> r,
    gzip |-> g, gunzip |-> u, nonempty |-> n, result |-> "pending"] :
     o \in BOOLEAN, l \in ContentLengths, t \in ContentTypes, r \in BOOLEAN,
     g \in BOOLEAN, u \in BOOLEAN, n \in BOOLEAN}

\* line 165: int(response.headers.get("Content-Length", 0))
Size(r) == IF r.clen = "absent" THEN 0 ELSE r.cval

\* _open_url, lines 157-193: "none" is None, "empty" the empty text
OpenUrl(r) ==
  IF ~r.opened THEN "none"                                  \* lines 159-162
  ELSE IF r.clen = "unparseable" THEN "none"                \* lines 164-167
  ELSE IF Size(r) > MaxSize THEN "none"                     \* lines 168-169
  ELSE IF r.ctype \notin {"absent", "text/html", "application/xhtml+xml",
                          "text/plain"}
  THEN "none"                                               \* lines 171-178
  ELSE IF ~r.read THEN "none"                               \* lines 180-183
  ELSE IF r.gzip /\ ~r.gunzip THEN "none"                   \* lines 185-191
  ELSE IF r.nonempty THEN "text" ELSE "empty"               \* line 193

InitFetch ==
  /\ InitState
  /\ calc = NoCalc
  /\ sync = NoSync
  /\ lone = LoneSource
  /\ resp \in Responses

\* _open_url returns
Open ==
  /\ resp.result = "pending"
  /\ resp' = [resp EXCEPT !.result = OpenUrl(resp)]
  /\ UNCHANGED <<poolVars, regVars, jobs, workerVars, wsVars, now, lpc, calc,
                 sync, lone>>

NextFetch == Open

SpecFetch == InitFetch /\ [][NextFetch]_vars

\* ------------------------------------------- tasks/afc_statistics.py: sync
\* SpecSync is Task.sync(**kwargs) of the AfC statistics task, called with
\* or without ignore_replag while the replication lag is replag.

InitSync ==
  /\ InitState
  /\ calc = NoCalc
  /\ resp = NoResponse
  /\ lone = LoneSource
  /\ \E r \in 0..MaxReplag, i \in BOOLEAN :
       sync = [NoSync EXCEPT !.replag = r, !.ignore = i, !.pc = "start"]

\* line 178: replag > 600 and not kwargs.get("ignore_replag")
ReplagTooHigh(r, i) == r > 600 /\ ~i

\* lines 174-180: the lag is read and tested; when it is too high the
\* warning "Sync canceled ..." is logged, and the method goes on to line 182
SyncCheck ==
  /\ sync.pc = "start"
  /\ sync' = [sync EXCEPT !.warned = ReplagTooHigh(sync.replag, sync.ignore),
                          !.pc = "update"]
  /\ UNCHANGED <<poolVars, regVars, jobs, workerVars, wsVars, now, lpc, calc,
                 resp, lone>>

\* line 183
UpdateTracked ==
  /\ sync.pc = "update"
  /\ sync' = [sync EXCEPT !.ran = Append(@, "update_tracked"), !.pc = "add"]
  /\ UNCHANGED <<poolVars, regVars, jobs, workerVars, wsVars, now, lpc, calc,
                 resp, lone>>

\* line 184
AddUntracked ==
  /\ sync.pc = "add"
  /\ sync' = [sync EXCEPT !.ran = Append(@, "add_untracked"), !.pc = "delete"]
  /\ UNCHANGED <<poolVars, regVars, jobs, workerVars, wsVars, now, lpc, calc,
                 resp, lone>>

\* lines 185-187
DeleteOld ==
  /\ sync.pc = "delete"
  /\ sync' = [sync EXCEPT !.ran = Append(@, "delete_old"), !.pc = "done"]
  /\ UNCHANGED <<poolVars, regVars, jobs, workerVars, wsVars, now, lpc, calc,
                 resp, lone>>

NextSync == SyncCheck \/ UpdateTracked \/ AddUntracked \/ DeleteOld

SpecSync == InitSync /\ [][NextSync]_vars

\* ------------------------------------------------------ one _CopyvioSource
\* SpecSource is one _CopyvioSource with the threads that use it: a reader
\* that calls join(until) once, a worker whose compare() completes the
\* source, and a _finish_early() that cancels it.

\* the clock of SpecSource runs to MaxWait, and a join is given a deadline
\* up to it (0: None)
MaxWait == MaxTime + 1

\* Event.wait(timeout) of line 121 returns: the event is set, or the timeout
\* that line 118 computed from the deadline s.until has run out
WaitOver(s) == s.event \/ s.until - now <= 0

\* join(until), lines 117-121: with a deadline that has passed it returns at
\* line 120, with another deadline it waits for the event, and with no
\* deadline (until is None) it skips the if block and returns
JoinCall(s, u) ==
  IF u # 0
  THEN IF u - now <= 0
       THEN [s EXCEPT !.jpc = "returned", !.until = u, !.woke = "deadline"]
       ELSE [s EXCEPT !.jpc = "waiting", !.until = u]
  ELSE [s EXCEPT !.jpc = "returned", !.until = u, !.woke = "nowait"]

\* a cancel() that also resets the result of the source
CancelSource_Resets(s) ==
  [s EXCEPT !.event = TRUE, !.cancelled = TRUE, !.confidence = 0,
            !.chains = -1]

\* cancel(), lines 111-113
CancelSource(s) == [s EXCEPT !.event = TRUE, !.cancelled = TRUE]

\* complete(confidence, source_chain, delta_chain), lines 105-109
CompleteSource(s, confidence, delta) ==
  [s EXCEPT !.confidence = confidence, !.chains = delta, !.event = TRUE]

InitSource ==
  /\ InitState
  /\ calc = NoCalc
  /\ resp = NoResponse
  /\ sync = NoSync
  /\ lone = LoneSource

\* the reader calls join(u)
SrcJoin(u) ==
  /\ lone.jpc = "idle"
  /\ lone' = JoinCall(lone, u)
  /\ UNCHANGED <<poolVars, regVars, jobs, workerVars, wsVars, now, lpc, calc,
                 resp, sync>>

\* the reader's Event.wait returns
SrcWake ==
  /\ lone.jpc = "waiting"
  /\ WaitOver(lone)
  /\ lone' = [lone EXCEPT !.jpc = "returned",
                          !.woke = IF lone.event THEN "signal" ELSE "deadline"]
  /\ UNCHANGED <<poolVars, regVars, jobs, workerVars, wsVars, now, lpc, calc,
                 resp, sync>>

\* compare() completes the source, once, with the confidence of a text that
\* shares d units with the article
SrcComplete(d) ==
  /\ lone.chains = -1
  /\ lone' = CompleteSource(lone, CalculateConfidence(ArticleSize, d), d)
  /\ UNCHANGED <<poolVars, regVars, jobs, workerVars, wsVars, now, lpc, calc,
                 resp, sync>>

\* _finish_early() cancels the source, once
SrcCancel ==
  /\ ~lone.cancelled
  /\ lone' = CancelSource(lone)
  /\ UNCHANGED <<poolVars, regVars, jobs, workerVars, wsVars, now, lpc, calc,
                 resp, sync>>

\* time passes
SrcTick ==
  /\ now < MaxWait
  /\ now' = now + 1
  /\ UNCHANGED <<poolVars, regVars, jobs, workerVars, wsVars, lpc, pureVars>>

NextSource ==
  \/ \E u \in 0..MaxWait : SrcJoin(u)
  \/ SrcWake
  \/ \E d \in Deltas : SrcComplete(d)
  \/ SrcCancel
  \/ SrcTick

SpecSource == InitSource /\ [][NextSource]_vars

\* ================================================================= claims
\* a worker has taken a source from a queue and has not yet gone back to
\* _dequeue: it is fetching the URL or comparing the text
Processing(w) == wpc[w] \in {"fetch", "text", "compare", "finish"}

\* the source was completed by complete(), as opposed to cancelled
Completed(j) == jobs[j].done /\ jobs[j].chains # -1

\* the deadline of the workspace has passed
DeadlinePassed(ws) == until[ws] # 0 /\ now >= until[ws]

\* C1: at no instant are two workers processing (dequeued and still
\* fetching or comparing) sources that share a domain key.
C1_OneWorkerPerDomain ==
  \A w1, w2 \in Workers :
    (w1 # w2 /\ Processing(w1) /\ Processing(w2))
      => jobs[wsrc[w1]].key # jobs[wsrc[w2]].key

\* C2: a worker that holds an active source and the non-empty text fetched
\* for it goes on into compare() of the source's workspace, by which the
\* source is completed; it does not leave that position any other way.
C2_TextIsCompared ==
  [][\A w \in Workers :
       (wpc[w] = "text" /\ wpc'[w] # "text")
         => (wpc'[w] = "compare" /\ jobs'[wsrc[w]].done)]_vars

\* a worker is blocked waiting for new work: it is in get() on a queue that
\* is empty
WaitingForWork(w) ==
  /\ wpc[w] = "get"
  /\ IF wqueue[w] # NoQueue THEN queues[wqueue[w]] = <<>> ELSE unassigned = <<>>

\* C3: a worker that is blocked waiting for new work does not keep an
\* enqueue call from taking the registry lock: while enqueue() is at its
\* locked insertion, no worker waiting for work holds the lock.
C3_WaitingWorkerFreesLock ==
  \A ws \in WS, w \in Workers :
    (mpc[ws] = "insert" /\ WaitingForWork(w)) => lock # w

\* C4: wait() does not return while a source the workspace has enqueued is
\* still active, unless the deadline of the workspace has passed.
C4_WaitCoversEnqueued ==
  [][\A ws \in WS :
       (mpc[ws] = "wait" /\ mpc'[ws] = "ready")
         => (DeadlinePassed(ws) \/ \A j \in JobsOf(ws) : ~Active(j))]_vars

\* C5: wait() returns no later than the deadline of the workspace, however
\* many sources are still active: from the deadline on, a caller inside
\* wait() is not blocked.
C5_WaitUnblockedAtDeadline ==
  \A ws \in WS :
    (mpc[ws] = "wait" /\ DeadlinePassed(ws)) => WaitCanReturn(ws)

\* a caller is inside wait() at the deadline while a source it enqueued is
\* still active
C5_Witness ==
  \E ws \in WS :
    /\ mpc[ws] = "wait" /\ DeadlinePassed(ws)
    /\ \E j \in JobsOf(ws) : Active(j)

\* the sources a workspace has enqueued: those it created and inserted
Enqueued(ws) == JobsOf(ws) \ {pending[ws]}

\* C6: when _finish_early() completes the workspace is marked finished and
\* every source the workspace has enqueued is inactive.
C6_FinishEarlyCancelsAll ==
  [][\A w \in Workers :
       (wpc[w] = "finish" /\ wpc'[w] # "finish")
         => LET ws == jobs[wsrc[w]].ws
            IN /\ finished'[ws]
               /\ \A j \in Enqueued(ws) : jobs'[j].done]_vars

\* compare() returns, in this step, for a source whose confidence exceeded
\* the best and met the threshold
ReturnsTriggered(w) ==
  LET ws == jobs[wsrc[w]].ws
      conf == jobs[wsrc[w]].confidence
  IN /\ wpc'[w] = "dequeue"
     /\ \/ wpc[w] = "finish"
        \/ /\ wpc[w] = "compare"
           /\ NewBest(ws, conf) /\ MeetsThreshold(ws, conf)

\* C7: when compare() returns for a source whose confidence exceeded the
\* best and met the threshold, the workspace is finished and every other
\* source of it that had not been completed is cancelled, with confidence
\* 0.0 and the empty chains.
C7_ThresholdCancelsRest ==
  [][\A w \in Workers :
       (Processing(w) /\ ReturnsTriggered(w))
         => LET ws == jobs[wsrc[w]].ws
            IN /\ finished'[ws]
               /\ \A j \in Enqueued(ws) \ {wsrc[w]} :
                    \/ Completed(j)
                    \/ /\ jobs'[j].done
                       /\ jobs'[j].confidence = 0
                       /\ jobs'[j].chains = -1]_vars

\* C8, as claimed: in every state the confidence of best is at least that
\* of every completed source of the workspace.
C8_BestIsMaxOfCompleted ==
  \A ws \in WS : \A j \in JobsOf(ws) :
    Completed(j) => BestConfidence(ws) >= jobs[j].confidence

\* the source is completed and its compare() has not yet been through the
\* locked update of best (lines 370-372)
BeingCompared(j) == \E w \in Workers : wpc[w] = "compare" /\ wsrc[w] = j

\* C8, amended: the confidence of best is at least that of every completed
\* source whose compare() has been through its locked update of best.
C8_BestIsMaxOfCompared ==
  \A ws \in WS : \A j \in JobsOf(ws) :
    (Completed(j) /\ ~BeingCompared(j))
      => BestConfidence(ws) >= jobs[j].confidence

\* two sources of a workspace were compared with different confidences and
\* best is the one with the larger
C8_Witness ==
  \E ws \in WS : \E j, k \in JobsOf(ws) :
    /\ Completed(j) /\ ~BeingCompared(j)
    /\ Completed(k) /\ ~BeingCompared(k)
    /\ jobs[j].confidence < jobs[k].confidence
    /\ best[ws] = k

\* C9: a source whose fetch gave no text keeps confidence 0.0 and the empty
\* chains, and is not the best of any workspace.
C9_NoTextKeepsDefaults ==
  \A j \in 1..Len(jobs) :
    jobs[j].notext
      => /\ jobs[j].confidence = 0
         /\ jobs[j].chains = -1
         /\ \A ws \in WS : best[ws] # j

\* a source was fetched without text, and another source of the same
\* workspace has since become best
C9_Witness ==
  \E j, k \in 1..Len(jobs) :
    /\ jobs[j].notext
    /\ jobs[k].ws = jobs[j].ws
    /\ best[jobs[j].ws] = k

\* the number of places of the registry's queues that hold source j
Occurrences(j) ==
  Cardinality({p \in (1..Len(queues)) \X (1..MaxJobs) :
                 p[2] <= Len(queues[p[1]]) /\ queues[p[1]][p[2]] = j})

\* C10: a workspace has at most one source per URL, and a source is put
\* into the registry once: it is in at most one place of the queues, and in
\* none once a worker has taken it.
C10_OneRecordPerUrl ==
  /\ \A j, k \in 1..Len(jobs) :
       (jobs[j].ws = jobs[k].ws /\ jobs[j].url = jobs[k].url) => j = k
  /\ \A j \in 1..Len(jobs) : Occurrences(j) <= 1
  /\ \A w \in Workers : Processing(w) => Occurrences(wsrc[w]) = 0

\* enqueue() was given again a URL it had handled, and every URL the
\* workspace has handled has a source
C10_Witness ==
  \E ws \in WS :
    /\ skipped[ws]
    /\ handled[ws] # {}
    /\ Cardinality(JobsOf(ws)) = Cardinality(handled[ws])
    /\ pending[ws] = NoSource

\* the sources a workspace has inserted into the registry, in the order of
\* their insertion
EnqueuedSeq(ws) ==
  SelectSeq([j \in 1..Len(jobs) |-> j], LAMBDA j : j \in Enqueued(ws))

\* C11: the job list of a workspace (sources) holds exactly the sources its
\* enqueue() has inserted into the registry, in the order of insertion.
C11_SourcesListEnqueued ==
  \A ws \in WS : sources[ws] = EnqueuedSeq(ws)

\* sources i and j share a key and i went into the registry before j
EnqueuedBefore(i, j) ==
  /\ jobs[i].key = jobs[j].key
  /\ jobs[i].enq # 0
  /\ jobs[i].enq < jobs[j].enq

\* globalize() started one worker
SingleWorker == everGlobalized /\ \A w \in Workers \ {1} : wpc[w] = "off"

\* C12: sources of one key leave the registry in the order they went in: a
\* source is taken out of its queue only after every source of its key that
\* was inserted before it; and with a single worker a source is completed
\* only after every such earlier source is done with (completed, or fetched
\* without text).
C12_SameKeyFifo ==
  \A i, j \in 1..Len(jobs) :
    EnqueuedBefore(i, j)
      => /\ jobs[j].deq # 0 => (jobs[i].deq # 0 /\ jobs[i].deq < jobs[j].deq)
         /\ (SingleWorker /\ Completed(j)) => (Completed(i) \/ jobs[i].notext)

\* with a single worker, two sources of one key have both been taken and
\* completed
C12_Witness ==
  /\ SingleWorker
  /\ \E i, j \in 1..Len(jobs) :
       /\ EnqueuedBefore(i, j)
       /\ jobs[i].deq # 0 /\ jobs[j].deq # 0
       /\ Completed(i) /\ Completed(j)

\* the constructor of the workspace returned a workspace
Constructed(ws) == mpc[ws] \in {"ready", "insert", "wait"}

\* C14: constructing a workspace succeeds whether or not the pool is
\* globalized: no constructor call ends without a workspace; and a workspace
\* constructed while globalized has started no worker of its own.
C14_ConstructorSucceeds ==
  \A ws \in WS :
    /\ mpc[ws] # "failed"
    /\ Constructed(ws) => lpc[ws] = "off"

\* the number of stop tokens in a dispatch queue
StopTokens(q) == Cardinality({i \in 1..Len(q) : q[i][1] = StopIteration})

\* the thread of the worker has ended
Ended(w) == wpc[w] \in {"stopped", "crashed"}

\* C15: globalize() while globalized starts no worker and keeps the
\* registry; localize() while not globalized changes nothing of the pool and
\* puts no stop token; and after localize() the pool is back in the inactive
\* state: there is no global registry and the list of global workers is
\* empty.  Stated of every step: the pool state it leaves, and what it may
\* change while the pool stays globalized or stays not globalized.
C15_PoolLifecycle ==
  [][/\ ~isGlobalized' => (globalQueues' = NoQueues /\ globalWorkers' = {})
     /\ (isGlobalized /\ isGlobalized')
          => /\ globalQueues' = globalQueues
             /\ globalWorkers' = globalWorkers
             /\ \A w \in Workers :
                  (Ended(w) \/ wpc[w] = "off") => wpc'[w] = wpc[w]
     /\ (~isGlobalized /\ ~isGlobalized')
          => /\ globalQueues' = globalQueues
             /\ globalWorkers' = globalWorkers
             /\ StopTokens(unassigned') <= StopTokens(unassigned)]_vars

\* the pool was globalized and then localized: it is inactive again, and a
\* worker has ended on a stop token
C15_Witness ==
  /\ everGlobalized /\ ~isGlobalized
  /\ globalQueues = NoQueues /\ globalWorkers = {}
  /\ \E w \in Workers : wpc[w] = "stopped"

\* localize() has been called on a globalized pool
Localized == everGlobalized /\ ~isGlobalized

\* the workers globalize() started
Started == {w \in Workers : wpc[w] # "off"}

\* C16: localize() puts exactly one stop token per global worker on the
\* dispatch queue and a worker takes at most one: from then on the tokens
\* still queued and the workers that returned on one add up to the number
\* of global workers; and every global worker's thread eventually ends.
C16_StopTokensEndWorkers ==
  /\ [](Localized =>
          StopTokens(unassigned)
            + Cardinality({w \in Workers : wpc[w] = "stopped"})
          = Cardinality(Started))
  /\ Localized ~> (\A w \in Started : Ended(w))

\* after localize() every global worker has returned on a stop token of
\* its own, and none is left in the dispatch queue
C16_Witness ==
  /\ Localized
  /\ Cardinality(Started) = NumWorkers
  /\ \A w \in Started : wpc[w] = "stopped"
  /\ StopTokens(unassigned) = 0

\* C17: no fetch is retried: _dequeue returns a source at most once, to one
\* worker; no two workers hold the same source.
C17_HandedOutOnce ==
  /\ \A j \in 1..Len(jobs) : jobs[j].taken <= 1
  /\ \A w1, w2 \in Workers :
       (w1 # w2 /\ Processing(w1) /\ Processing(w2)) => wsrc[w1] # wsrc[w2]

\* a source was fetched without text and never handed out again: every
\* source has since been taken from the registry, each once, and the
\* workers are back waiting for work
C17_Witness ==
  /\ \E j \in 1..Len(jobs) : jobs[j].notext
  /\ Len(jobs) = MaxJobs
  /\ \A j \in 1..Len(jobs) : jobs[j].taken = 1
  /\ \A w \in Workers : ~Processing(w)
  /\ \E w \in Workers : WaitingForWork(w)

\* the confidence of the calculation has been computed
Calculated == calc.conf # -1

\* C18: for every article size A > 0 and intersection size 0 <= D <= A the
\* confidence is the larger of the two branches, so at least each of them;
\* for A = 1000 and D = 600 the second branch is 550/600, it exceeds the
\* first and is the confidence, and the source becomes best and ends the
\* check when the threshold is at most that confidence.
C18_ConfidenceIsMax ==
  Calculated
    => /\ calc.conf >= calc.f1 /\ calc.conf >= calc.f2
       /\ calc.conf \in {calc.f1, calc.f2}
       /\ (calc.article = 1000 /\ calc.delta = 600)
            => /\ calc.f2 = (550 * Scale) \div 600
               /\ calc.f2 > calc.f1
               /\ calc.conf = calc.f2
               /\ calc.best
               /\ calc.finish <=> minConf[1] <= (550 * Scale) \div 600

\* the calculation for A = 1000 and D = 600 was made against a threshold
\* the confidence meets
C18_Witness ==
  /\ Calculated
  /\ calc.article = 1000 /\ calc.delta = 600
  /\ calc.finish

\* C19: the second branch is continuous at its breakpoints: the formulas on
\* both sides of 100, 250 and 500 agree there, with the values 1/2, 3/4 and
\* 9/10; it is 0 at 0 and 19/20 at 1000; and it is below 1 everywhere.
C19_DeltaBranchContinuous ==
  Calculated
    => /\ calc.f2 < Scale
       /\ calc.delta = 0 => calc.f2 = 0
       /\ calc.delta = 100
            => (calc.f2 = Scale \div 2 /\ ConfDeltaTo250(100) = calc.f2)
       /\ calc.delta = 250
            => (calc.f2 = (3 * Scale) \div 4 /\ ConfDeltaTo500(250) = calc.f2)
       /\ calc.delta = 500
            => (calc.f2 = (9 * Scale) \div 10 /\ ConfDeltaOver500(500) = calc.f2)
       /\ calc.delta = 1000 => calc.f2 = (19 * Scale) \div 20

\* the second branch was calculated at a breakpoint
C19_Witness == Calculated /\ calc.delta \in {100, 250, 500}

\* the ratio 0.52763 at which the first branch changes formula, in parts
\* per Scale
Break == (52763 * Scale) \div 100000

\* the resolution of the fixed-point confidences: one part in a thousand
Tol == Scale \div 1000

\* the intersection size of the calculation is the last on the logarithmic
\* side of the break: the next size is on the polynomial side
AtBreak ==
  /\ calc.delta * 100000 <= 52763 * calc.article
  /\ (calc.delta + 1) * 100000 > 52763 * calc.article

\* C20: the first branch is 0 at ratio 0; its two formulas agree at the
\* ratio 0.52763 within the resolution of the arithmetic; and it does not
\* decrease as the ratio grows from 0 to 1: a size of intersection one
\* larger, against the same article, gives at least the same value.
C20_ArticleBranchMonotone ==
  Calculated
    => /\ calc.delta = 0 => calc.f1 = 0
       /\ calc.delta < calc.article
            => calc.f1 <= ConfWithArticleAndDelta(calc.article, calc.delta + 1)
       /\ AtBreak
            => /\ ConfLog(Break) - ConfPoly(Break) <= Tol
               /\ ConfPoly(Break) - ConfLog(Break) <= Tol

\* the first branch was calculated with its logarithm just below the break,
\* at a size whose successor is calculated with the polynomial
C20_Witness ==
  /\ Calculated
  /\ AtBreak
  /\ calc.article >= 1000
  /\ calc.f1 > 0
  /\ calc.f1 < ConfWithArticleAndDelta(calc.article, calc.delta + 1)

\* C21: for every article size A > 0 and intersection size 0 <= D <= A the
\* confidence _calculate_confidence returns is at least 0 and at most 1.
C21_ConfidenceInUnitInterval ==
  Calculated
    => /\ calc.conf >= 0
       /\ calc.conf <= Scale
       /\ ~calc.over

\* C22: _open_url returns a text only for a response whose Content-Length
\* header is present, is an integer literal and is at most 1 MiB; it returns
\* None when the header is absent, unparseable or above 1 MiB.
C22_LengthDeclaredOrNothing ==
  resp.result = "text" => (resp.clen = "int" /\ resp.cval <= MaxSize)

\* C23: a sync() with the replication lag above 600 seconds and without
\* ignore_replag runs none of update_tracked, add_untracked and delete_old;
\* any other sync(), once it has returned, has run the three in that order.
C23_ReplagCancelsSync ==
  /\ ReplagTooHigh(sync.replag, sync.ignore) => sync.ran = <<>>
  /\ (sync.pc = "done" /\ ~ReplagTooHigh(sync.replag, sync.ignore))
       => sync.ran = <<"update_tracked", "add_untracked", "delete_old">>

\* a queue made for domain key k holds a source
NonEmpty(k) ==
  \E q \in 1..Len(queues) : jobs[q].key = k /\ queues[q] # <<>>

\* the workers that own (have claimed) the queue of domain key k
Claimers(k) == {w \in Workers : wqueue[w] # NoQueue /\ wsite[w] = k}

\* a worker takes, in this step, the last source of the queue of key k
PopsLast(k) ==
  \E q \in 1..Len(queues) :
    /\ jobs[q].key = k
    /\ Len(queues[q]) = 1
    /\ queues'[q] = <<>>

\* C24: a domain key is in the sites mapping if and only if its queue is
\* non-empty or owned by exactly one worker; no queue has two owners; and
\* the step in which a worker takes the last source of a key's queue
\* removes the key's entry and ends the worker's ownership of the queue.
C24_SitesIffQueued ==
  [][\A k \in Domains :
       /\ sites'[k] # NoQueue
            <=> (NonEmpty(k)' \/ Cardinality(Claimers(k)') = 1)
       /\ Cardinality(Claimers(k)') <= 1
       /\ PopsLast(k) => (sites'[k] = NoQueue /\ Claimers(k)' = {})]_vars

\* a worker owns the queue of a key that is in the mapping, and the entry
\* of another key was removed when its only source was taken
C24_Witness ==
  \E w \in Workers, k \in Domains :
    /\ wqueue[w] # NoQueue /\ sites[wsite[w]] = wqueue[w]
    /\ k # wsite[w]
    /\ sites[k] = NoQueue
    /\ \E j \in 1..Len(jobs) : jobs[j].key = k /\ jobs[j].deq # 0

\* C26: a worker whose deadline has elapsed, or for which no work arrives
\* before the deadline, ends its thread without raising an error: no worker
\* with a deadline ever leaves _run through an exception.
C26_DeadlineEndsCleanly == \A ws \in WS : lpc[ws] # "crashed"

\* source j waits in a queue of the registry
Queued(j) == \E q \in 1..Len(queues) : \E i \in 1..Len(queues[q]) : queues[q][i] = j

\* C27: once a workspace is marked finished, enqueue puts nothing of it into
\* the registry, also when _finish_early runs during an enqueue call: no
\* step taken with the workspace finished brings one of its sources into a
\* queue of the registry.
C27_FinishedEnqueuesNothing ==
  [][\A j \in 1..Len(jobs) :
       finished[jobs[j].ws] => (Queued(j)' => Queued(j))]_vars

\* the workspace has no source for the URL
NoRecord(ws, url) == \A j \in JobsOf(ws) : jobs[j].url # url

\* C28: a URL for which exclude_check answers true gets no source: the
\* enqueue step that handles it leaves the sources, the sources list, the
\* domain queues, the mapping and the dispatch queue as they were, and a URL
\* handled without a source never gets one later.
C28_ExcludedGetsNoRecord ==
  [][\A ws \in WS, url \in Urls :
       /\ EnqueueUrl(ws, url, TRUE) =>
            UNCHANGED <<jobs, sources, queues, sites, unassigned>>
       /\ (url \in handled[ws] /\ NoRecord(ws, url)) => NoRecord(ws, url)']_vars

\* an excluded URL was handled in a workspace that has sources of other URLs
C28_Witness ==
  \E ws \in WS, url \in Urls :
    /\ url \in handled[ws]
    /\ NoRecord(ws, url)
    /\ \E j \in JobsOf(ws) : Queued(j)

\* worker w is in compare(), about to call _finish_early() on workspace ws
CallsFinishEarly(w, ws) ==
  /\ wpc[w] = "compare"
  /\ jobs[wsrc[w]].ws = ws
  /\ NewBest(ws, jobs[wsrc[w]].confidence)
  /\ MeetsThreshold(ws, jobs[wsrc[w]].confidence)

\* C29: _finish_early() on a workspace that is already finished changes the
\* state of no source, does not take the registry lock and leaves the
\* workspace finished; a finished workspace stays finished, and no worker
\* waits for the registry lock in _finish_early() of a finished workspace.
C29_FinishEarlyIdempotent ==
  [][\A ws \in WS :
       /\ finished[ws] => finished'[ws]
       /\ \A w \in Workers :
            /\ (wpc'[w] = "finish" /\ jobs'[wsrc'[w]].ws = ws) => ~finished'[ws]
            /\ (finished[ws] /\ CallsFinishEarly(w, ws) /\ wpc'[w] # wpc[w]) =>
                 /\ wpc'[w] = "dequeue"
                 /\ jobs' = jobs
                 /\ lock' = lock
                 /\ compareLock' = compareLock]_vars

\* a worker calls _finish_early() on a workspace that is finished
C29_Witness ==
  \E ws \in WS, w \in Workers :
    finished[ws] /\ CallsFinishEarly(w, ws) /\ compareLock[ws] = 0

\* C30: best starts as the placeholder, with confidence 0.0 and no URL, and
\* is replaced only by a source whose confidence is strictly greater than
\* that of the current best: the confidence of best never decreases, and a
\* source compared later with the same confidence does not displace it.
C30_BestOnlyImproves ==
  /\ \A ws \in WS : best[ws] = NoSource /\ BestConfidence(ws) = 0
  /\ [][\A ws \in WS :
          /\ BestConfidence(ws)' >= BestConfidence(ws)
          /\ best'[ws] # best[ws] =>
               /\ best'[ws] # NoSource
               /\ jobs'[best'[ws]].confidence > BestConfidence(ws)]_vars

\* two sources of a workspace were compared with the same confidence, and
\* one of them is best
C30_Witness ==
  \E j, k \in 1..Len(jobs) :
    /\ j # k
    /\ jobs[j].ws = jobs[k].ws
    /\ Completed(j) /\ Completed(k)
    /\ jobs[j].confidence = jobs[k].confidence
    /\ best[jobs[j].ws] = j
    /\ \A w \in Workers : wsrc[w] \notin {j, k}

\* C31: the mapping of the registry and its dispatch queue change only in
\* steps of the thread that holds the registry lock: no step changes either
\* of them while another thread holds the lock.
C31_RegistryMutatedUnderLock ==
  [][(sites' # sites \/ unassigned' # unassigned) =>
       (lock = 0 \/ wpc'[lock] # wpc[lock])]_vars

\* C32: cancel() sets the event of a source and leaves its result alone: a
\* reader that waits in join() can return at once, the confidence and the
\* chains are what they were, and for a source cancelled while active they
\* are the defaults, 0.0 and the empty chains.
C32_CancelKeepsResult ==
  [][(lone'.cancelled /\ ~lone.cancelled) =>
       /\ lone'.event
       /\ lone'.confidence = lone.confidence
       /\ lone'.chains = lone.chains
       /\ WaitOver(lone)'
       /\ lone'.jpc = lone.jpc
       /\ ~lone.event => (lone'.confidence = 0 /\ lone'.chains = -1)]_vars

\* an active source was cancelled before its reader's deadline, and the
\* reader that waited in join() has returned on the event
C32_Witness ==
  /\ lone.cancelled
  /\ lone.chains = -1
  /\ lone.jpc = "returned"
  /\ lone.woke = "signal"
  /\ lone.until - now > 0

\* C33: with the global pool, the _finish_early() of one workspace leaves
\* every source of every other workspace as it was (event, confidence,
\* chains), and the mapping, the domain queues and the dispatch queue keep
\* all their entries.
C33_FinishEarlyFrame ==
  [][\A ws \in SharedWS :
       (finished'[ws] /\ ~finished[ws]) =>
         /\ \A j \in 1..Len(jobs) : jobs[j].ws # ws => jobs'[j] = jobs[j]
         /\ sites' = sites
         /\ queues' = queues
         /\ unassigned' = unassigned]_vars

\* one workspace is finished while an active source of another workspace
\* waits in the registry
C33_Witness ==
  \E ws \in SharedWS, j \in 1..Len(jobs) :
    /\ finished[ws]
    /\ jobs[j].ws # ws
    /\ Active(j) /\ Queued(j)
    /\ sites[jobs[j].key] # NoQueue

\* C34: the deadline of a join is optional: a reader that joins a source
\* with no deadline returns only once the event of the source is set, and a
\* reader with a deadline only once the event is set or the deadline has
\* passed.
C34_JoinWaitsForSignal ==
  lone.jpc = "returned" =>
    (lone.event \/ (lone.until # 0 /\ lone.until - now <= 0))

\* workers v and w are fetching at the same time, sources of different keys
FetchingTwoKeys(v, w) ==
  /\ v # w
  /\ wpc[v] = "fetch" /\ wpc[w] = "fetch"
  /\ jobs[wsrc[v]].key # jobs[wsrc[w]].key

\* C35: sources of different keys can be in flight at once.  A worker that
\* is fetching has left _dequeue and does not hold the registry lock, so the
\* other workers can take sources meanwhile; the witness is the state the
\* claim says is reachable, two workers fetching sources of two keys.
C35_FetchOutsideLock ==
  \A w \in Workers : wpc[w] \in {"fetch", "text"} => lock # w

\* two workers are fetching, one source of each of two keys
C35_Witness == \E v, w \in Workers : FetchingTwoKeys(v, w)

\* worker w holds the compare lock of some workspace
HoldsCompareLock(w) == \E ws \in WS : compareLock[ws] = w

\* C36: the two locks are taken in one order.  The registry lock is held
\* only inside the with block of _dequeue, by a worker that holds no compare
\* lock and requests none; a worker that requests a compare lock holds no
\* lock; the one nested request is that of _finish_early, for the registry
\* lock, by the holder of a compare lock.  So no worker waits for a compare
\* lock while it holds the registry lock.
C36_LockOrder ==
  \A w \in Workers :
    /\ lock = w => (wpc[w] = "get" /\ ~HoldsCompareLock(w))
    /\ wpc[w] = "compare" => (lock # w /\ ~HoldsCompareLock(w))
    /\ HoldsCompareLock(w) => (wpc[w] = "finish" /\ lock # w)

\* a worker holds a compare lock and requests the registry lock, which
\* another worker holds
C36_Witness ==
  \E v, w \in Workers :
    /\ v # w
    /\ HoldsCompareLock(v) /\ wpc[v] = "finish"
    /\ lock = w

\* the next pair of the dispatch queue is a stop token
StopTokenNext == unassigned # <<>> /\ Head(unassigned)[1] = StopIteration

\* C37: a worker takes a stop token only while it owns no queue.  A worker
\* that owns a queue takes its next source from that queue and leaves the
\* dispatch queue alone, so its thread does not end there; a thread that
\* has ended on a stop token owns no queue.
C37_StopOnlyUnclaimed ==
  [][\A w \in Workers :
       /\ (wpc[w] = "get" /\ wpc'[w] # "get" /\ wqueue[w] # NoQueue) =>
            /\ unassigned' = unassigned
            /\ wpc'[w] = "fetch"
            /\ wsrc'[w] = Head(queues[wqueue[w]])
            /\ queues'[wqueue[w]] = Tail(queues[wqueue[w]])
       /\ wpc'[w] = "stopped" => wqueue'[w] = NoQueue]_vars

\* a worker that owns a queue with a source in it is in _dequeue, with the
\* lock, while a stop token is first in the dispatch queue
C37_Witness ==
  \E w \in Workers :
    /\ wpc[w] = "get" /\ lock = w
    /\ wqueue[w] # NoQueue /\ queues[wqueue[w]] # <<>>
    /\ StopTokenNext

\* the pairs of the dispatch queue that are not stop tokens, by position
Pairs == {i \in 1..Len(unassigned) : unassigned[i][1] # StopIteration}

\* the pairs of the dispatch queue are sound: each names a queue that holds
\* a source, is the entry of its key in the mapping and is owned by no
\* worker, and no queue is named by two pairs
PairsSound ==
  /\ \A i \in Pairs :
       /\ queues[unassigned[i][2]] # <<>>
       /\ sites[unassigned[i][1]] = unassigned[i][2]
       /\ \A w \in Workers : wqueue[w] # unassigned[i][2]
  /\ \A i, j \in Pairs : unassigned[i][2] = unassigned[j][2] => i = j

\* C38: the pairs waiting in the dispatch queue are sound in every state;
\* so a worker that takes a pair gets a source from its queue (get_nowait
\* does not raise Empty) and finds the entry of the key when it has emptied
\* the queue (the del of line 216 does not raise KeyError).
C38_DispatchPairsSound ==
  [][/\ PairsSound'
     /\ \A w \in Workers :
          (wpc[w] = "get" /\ wpc'[w] # "get" /\ wqueue[w] = NoQueue
             /\ ~StopTokenNext) =>
            /\ wpc'[w] = "fetch"
            /\ wsrc'[w] = Head(queues[Head(unassigned)[2]])
            /\ sites[Head(unassigned)[1]] # NoQueue]_vars

\* a pair waits in the dispatch queue while a worker owns the queue of
\* another key, from which a source has been taken
C38_Witness ==
  /\ Cardinality(Pairs) >= 1
  /\ \E w \in Workers : wqueue[w] # NoQueue
  /\ \E j \in 1..Len(jobs) : jobs[j].deq # 0 /\ jobs[j].enq # 0

\* C39: a URL that exclude_check rejects is recorded as handled all the
\* same, and an enqueue of a URL so recorded, whatever exclude_check answers
\* this time, creates no source.
C39_ExcludedIsSeen ==
  [][\A ws \in WS, url \in Urls :
       /\ (~finished[ws] /\ EnqueueUrl(ws, url, TRUE)) => url \in handled'[ws]
       /\ \A excluded \in BOOLEAN :
            (url \in handled[ws] /\ NoRecord(ws, url)
               /\ EnqueueUrl(ws, url, excluded)) =>
              (jobs' = jobs /\ pending' = pending /\ mpc' = mpc)]_vars

\* the one URL a workspace has handled was excluded, and a later enqueue of
\* it has been passed over
C39_Witness ==
  \E ws \in WS, url \in Urls :
    /\ handled[ws] = {url}
    /\ NoRecord(ws, url)
    /\ skipped[ws]
    /\ ~finished[ws]

====
